---- MODULE Spec2Model ----
(***************************************************************************)
(* NoSmoke API (backend/server.py): the document store (users, events,    *)
(* triggers, payment_transactions), the wall clock, and the request       *)
(* handlers that write to the store or aggregate over it.                  *)
(*                                                                         *)
(* Time.  An instant is an integer number of ticks since day 0, 00:00:00   *)
(* UTC.  A day has SecPerDay seconds and a second MicrosPerSec             *)
(* microseconds, so the last tick of a day is 23:59:59.999999.             *)
(*                                                                         *)
(* Strings.  An ISO-8601 string is the sequence of its fixed-width fields  *)
(* and separator characters: <<day>> is "YYYY-MM-DD", <<day, sec, 43>> is  *)
(* "YYYY-MM-DDTHH:MM:SS+00:00" and <<day, sec, 46, micro, 43>> is          *)
(* "YYYY-MM-DDTHH:MM:SS.ffffff+00:00".  The store compares strings         *)
(* lexicographically, as MongoDB does.                                     *)
(*                                                                         *)
(* Money.  A float amount of dollars is an exact number of cents.          *)
(* Optional[T].  None is << >> and a value v is <<v>>.                      *)
(***************************************************************************)
EXTENDS Integers, Sequences, FiniteSets, TLC

VARIABLES clock, users, events, triggers, payment_transactions, inflight, reading,
          registering, checking, resp

vars ==
    <<clock, users, events, triggers, payment_transactions, inflight, reading,
      registering, checking, resp>>

store == <<users, events, triggers, payment_transactions>>

-----------------------------------------------------------------------------
(* Bounds of the model *)

SecPerDay == 2

MicrosPerSec == 2

TicksPerDay == SecPerDay * MicrosPerSec

-----------------------------------------------------------------------------
(* Sequences *)

Range(s) == {s[i] : i \in 1..Len(s)}

Min(a, b) == IF a <= b THEN a ELSE b

Max(a, b) == IF a >= b THEN a ELSE b

\* cursor.to_list(n): the first n documents of the cursor
to_list(s, n) == SubSeq(s, 1, Min(Len(s), n))

\* list(reversed(s))
reversed(s) == [i \in 1..Len(s) |-> s[Len(s) + 1 - i]]

\* sum(1 for e in s if e[key] == val) for key = event_type
RECURSIVE CountType(_, _)
CountType(s, ty) ==
    IF s = << >> THEN 0
    ELSE (IF Head(s).event_type = ty THEN 1 ELSE 0) + CountType(Tail(s), ty)

-----------------------------------------------------------------------------
(* datetime and its string forms *)

PlusChar == 43

DotChar == 46

ZChar == 90

DayOf(t) == t \div TicksPerDay

SecOf(t) == (t % TicksPerDay) \div MicrosPerSec

MicroOf(t) == t % MicrosPerSec

MakeInstant(day, sec, micro) == day * TicksPerDay + sec * MicrosPerSec + micro

\* datetime.replace(hour=.., minute=.., second=.., microsecond=..)
ReplaceTime(t, sec, micro) == MakeInstant(DayOf(t), sec, micro)

\* datetime.isoformat() of a UTC-aware datetime: the fraction is left out
\* when microsecond is 0
isoformat(t) ==
    IF MicroOf(t) = 0
    THEN <<DayOf(t), SecOf(t), PlusChar>>
    ELSE <<DayOf(t), SecOf(t), DotChar, MicroOf(t), PlusChar>>

\* s[:10] of an isoformat string: the date
DatePrefix(s) == SubSeq(s, 1, Min(Len(s), 1))

\* day.strftime("%Y-%m-%d")
strftime_date(t) == <<DayOf(t)>>

\* s.replace("Z", "+00:00") if "Z" in s else s
ReplaceZ(s) == [i \in 1..Len(s) |-> IF s[i] = ZChar THEN PlusChar ELSE s[i]]

ValueError == -1

\* datetime.fromisoformat(s), then tzinfo=UTC when naive: the instant, or
\* ValueError when s is not an ISO date or datetime
fromisoformat(s) ==
    IF Len(s) = 0 \/ s[1] < 0 THEN ValueError
    ELSE IF Len(s) = 1 THEN MakeInstant(s[1], 0, 0)
    ELSE IF s[2] < 0 \/ s[2] >= SecPerDay THEN ValueError
    ELSE IF Len(s) = 2 THEN MakeInstant(s[1], s[2], 0)
    ELSE IF Len(s) = 3 /\ s[3] = PlusChar THEN MakeInstant(s[1], s[2], 0)
    ELSE IF Len(s) = 4 /\ s[3] = DotChar /\ s[4] \in 0..(MicrosPerSec - 1)
         THEN MakeInstant(s[1], s[2], s[4])
    ELSE IF Len(s) = 5 /\ s[3] = DotChar /\ s[4] \in 0..(MicrosPerSec - 1)
            /\ s[5] = PlusChar
         THEN MakeInstant(s[1], s[2], s[4])
    ELSE ValueError

\* Lexicographic order of strings (MongoDB's comparison of string fields)
RECURSIVE StrLess(_, _)
StrLess(a, b) ==
    IF b = << >> THEN FALSE
    ELSE IF a = << >> THEN TRUE
    ELSE IF Head(a) < Head(b) THEN TRUE
    ELSE IF Head(a) > Head(b) THEN FALSE
    ELSE StrLess(Tail(a), Tail(b))

\* {"$lte": b}
StrLeq(a, b) == ~StrLess(b, a)

timedelta_days_RoundingUp(d) == (d + TicksPerDay - 1) \div TicksPerDay

\* timedelta.days: whole days, rounded towards minus infinity
timedelta_days(d) == d \div TicksPerDay

-----------------------------------------------------------------------------
(* Documents and request payloads *)

None == << >>

Some(v) == <<v>>

\* UserCreate: the payload's defaults
DefaultCigarettesPerDay == 10

DefaultCostPerPack == 1000

DefaultCigarettesPerPack == 20

EventTypes == {"cigarette", "urge", "resisted"}

NoResp == [op |-> "none", uid |-> 0, status |-> 0, body |-> << >>]

\* An exception no handler catches: the framework answers 500
Unhandled(op, uid, exc) ==
    [op |-> op, uid |-> uid, status |-> 500, body |-> [error |-> exc]]

\* raise HTTPException(status_code=code, detail=detail)
HTTPException(op, uid, code, detail) ==
    [op |-> op, uid |-> uid, status |-> code, body |-> [detail |-> detail]]

Ok(op, uid, body) == [op |-> op, uid |-> uid, status |-> 200, body |-> body]

Find_AnyUser(coll, uid, lo, hi) ==
    LET Match(d) == /\ (lo = None \/ StrLeq(lo[1], d.created_at))
                    /\ (hi = None \/ StrLeq(d.created_at, hi[1]))
    IN SelectSeq(coll, Match)

\* db.<collection>.find(query): the matching documents, in insertion order
RECURSIVE Find(_, _, _, _)
Find(coll, uid, lo, hi) ==
    IF coll = << >> THEN << >>
    ELSE LET d == Head(coll)
             rest == Find(Tail(coll), uid, lo, hi)
         IN IF /\ d.user_id = uid
               /\ (lo = None \/ StrLeq(lo[1], d.created_at))
               /\ (hi = None \/ StrLeq(d.created_at, hi[1]))
            THEN <<d>> \o rest
            ELSE rest

FindType_AnyUser(coll, uid, ty) ==
    LET Match(d) == d.event_type = ty
    IN SelectSeq(coll, Match)

FindType_AnyType(coll, uid, ty) == Find(coll, uid, None, None)

\* {"user_id": uid, "event_type": ty}
FindType(coll, uid, ty) ==
    LET all == Find(coll, uid, None, None)
        Match(d) == d.event_type = ty
    IN SelectSeq(all, Match)

\* db.users.find_one({"id": uid}): the position of the first match, 0 if none
FindUser(uid) ==
    IF \E i \in 1..Len(users) : users[i].id = uid
    THEN CHOOSE i \in 1..Len(users) :
            /\ users[i].id = uid
            /\ \A j \in 1..(i - 1) : users[j].id # uid
    ELSE 0

\* The ids whose bearer token get_current_user accepts
Authenticated == {users[i].id : i \in 1..Len(users)}

\* get_current_user: the user document of the token's subject
CurrentUser(uid) == users[FindUser(uid)]

-----------------------------------------------------------------------------
(* Progress aggregation *)

RoundCents_Truncating(num, den) == num \div den

\* round(x, 2) of the amount num/den cents, den > 0, num >= 0: to the nearest
\* cent, a tie to the even cent
RoundCents(num, den) ==
    LET q == num \div den
        r == num % den
    IN IF 2 * r < den THEN q
       ELSE IF 2 * r > den THEN q + 1
       ELSE IF q % 2 = 0 THEN q ELSE q + 1

\* round(max(0, cigarettes_avoided * (cost_per_pack / cigarettes_per_pack)), 2)
MoneySaved(cigarettes_avoided, cost_per_pack, cigarettes_per_pack) ==
    LET sgn == IF cigarettes_per_pack < 0 THEN -1 ELSE 1
        num == sgn * cigarettes_avoided * cost_per_pack
        den == sgn * cigarettes_per_pack
    IN IF num <= 0 THEN 0 ELSE RoundCents(num, den)

\* find(...).sort("created_at", -1).to_list(100), then events[0]: the
\* document with the greatest created_at
SortedFirst_Ascending(evs) ==
    CHOOSE e \in Range(evs) :
        \A f \in Range(evs) : ~StrLess(f.created_at, e.created_at)

SortedFirst(evs) ==
    CHOOSE e \in Range(evs) :
        \A f \in Range(evs) : ~StrLess(e.created_at, f.created_at)

ProgressSummaryClamp_Missing(x) == x

\* max(0, x) of the returned counters
ProgressSummaryClamp(x) == Max(0, x)

\* The exception get_progress_summary raises before it queries the events,
\* "" if none: fromisoformat of a malformed quit_date, the division by a
\* zero cigarettes_per_pack
ProgressSummaryRaises(user) ==
    IF user.quit_date # << >> /\ fromisoformat(ReplaceZ(user.quit_date)) = ValueError
    THEN "ValueError"
    ELSE IF user.cigarettes_per_pack = 0 THEN "ZeroDivisionError"
    ELSE ""

\* get_progress_summary: now1 is the clock read before the events query
\* (days_smoke_free), now2 the clock read after it (current_streak)
ProgressSummaryAt(user, evs, now1, now2) ==
    LET quit_date == user.quit_date
        quit_datetime == fromisoformat(ReplaceZ(quit_date))
        days_smoke_free ==
            IF quit_date # << >> THEN timedelta_days(now1 - quit_datetime) ELSE 0
        cigarettes_avoided == days_smoke_free * user.cigarettes_per_day
        cigs == FindType(evs, user.id, "cigarette")
        last_smoke == fromisoformat(ReplaceZ(SortedFirst(cigs).created_at))
        current_streak ==
            IF cigs # << >> THEN timedelta_days(now2 - last_smoke)
            ELSE days_smoke_free
    IN IF ProgressSummaryRaises(user) # ""
       THEN Unhandled("get_progress_summary", user.id, ProgressSummaryRaises(user))
       ELSE Ok("get_progress_summary", user.id,
               [days_smoke_free |-> ProgressSummaryClamp(days_smoke_free),
                current_streak |-> ProgressSummaryClamp(current_streak),
                cigarettes_avoided |-> ProgressSummaryClamp(cigarettes_avoided),
                money_saved |-> MoneySaved(cigarettes_avoided, user.cost_per_pack,
                                           user.cigarettes_per_pack),
                quit_date |-> quit_date])

\* The handler with no clock tick between its two readings of the clock
ProgressSummary(user, evs, now) == ProgressSummaryAt(user, evs, now, now)

\* The cap of every to_list(1000), scaled to the size of the model's collections
ToListLimit == 2

DaysInWeek == 7

WeeksInMonth == 4

\* The three tallies of a bucket
Tally(found) ==
    [cigarettes |-> CountType(found, "cigarette"),
     urges |-> CountType(found, "urge"),
     resisted |-> CountType(found, "resisted")]

BucketDay_NewestFirst(now, i) == now - i * TicksPerDay

\* day = now - timedelta(days=6-i)
BucketDay(now, i) == now - (DaysInWeek - 1 - i) * TicksPerDay

\* Iteration i (0-based) of the loop of get_weekly_progress
DayBucket(user, evs, now, i) ==
    LET day == BucketDay(now, i)
        day_start == isoformat(ReplaceTime(day, 0, 0))
        day_end == isoformat(ReplaceTime(day, SecPerDay - 1, MicrosPerSec - 1))
        found == to_list(Find(evs, user.id, Some(day_start), Some(day_end)),
                         ToListLimit)
    IN [date |-> strftime_date(day), day_name |-> DayOf(day) % DaysInWeek]
       @@ Tally(found)

WeeklyProgress(user, evs, now) ==
    Ok("get_weekly_progress", user.id,
       [days |-> [k \in 1..DaysInWeek |-> DayBucket(user, evs, now, k - 1)]])

WeekLabel_NewestFirst(i) == i + 1

\* f"Week {4-i}"
WeekLabel(i) == WeeksInMonth - i

\* Iteration i (0-based) of the loop of get_monthly_progress
WeekBucket(user, evs, now, i) ==
    LET week_end == now - i * DaysInWeek * TicksPerDay
        week_start == week_end - DaysInWeek * TicksPerDay
        found == to_list(Find(evs, user.id, Some(isoformat(week_start)),
                              Some(isoformat(week_end))),
                         ToListLimit)
    IN [week |-> WeekLabel(i),
        start_date |-> strftime_date(week_start),
        end_date |-> strftime_date(week_end)]
       @@ Tally(found)

MonthlyProgress(user, evs, now) ==
    LET weeks == [k \in 1..WeeksInMonth |-> WeekBucket(user, evs, now, k - 1)]
    IN Ok("get_monthly_progress", user.id, [weeks |-> reversed(weeks)])

-----------------------------------------------------------------------------
(* Today's statistics and the profile statistics *)

\* The length of the slice events[-10:]
RecentLimit == 10

\* s[-n:]
LastN(s, n) == SubSeq(s, Max(1, Len(s) - n + 1), Len(s))

\* get_today_stats
TodayStats(user, evs, now) ==
    LET today_start == isoformat(ReplaceTime(now, 0, 0))
        found == to_list(Find(evs, user.id, Some(today_start), None), ToListLimit)
        cigs == FindType(evs, user.id, "cigarette")
        last_cigarette_time ==
            IF cigs # << >> THEN SortedFirst(cigs).created_at ELSE user.quit_date
        tally == Tally(found)
    IN Ok("get_today_stats", user.id,
          [cigarettes_today |-> tally.cigarettes,
           urges_today |-> tally.urges,
           resisted_today |-> tally.resisted,
           last_cigarette |-> last_cigarette_time,
           events |-> LastN(found, RecentLimit)])

\* get_profile_stats: count_documents counts without a cap
ProfileStats(user, evs, trigs) ==
    Ok("get_profile_stats", user.id,
       [total_events_logged |-> Len(Find(evs, user.id, None, None)),
        total_triggers_logged |-> Len(Find(trigs, user.id, None, None)),
        subscription_status |-> user.subscription_status,
        subscription_end |-> user.subscription_end,
        member_since |-> user.created_at])

-----------------------------------------------------------------------------
(* Trigger patterns *)

TopLimit == 5

\* The cap of to_list(1000) in get_trigger_patterns, scaled to leave room for
\* more than TopLimit types
TriggerListLimit == 6

\* The keys of type_counts, in order of first encounter
RECURSIVE TypeKeys(_)
TypeKeys(trigs) ==
    IF trigs = << >> THEN << >>
    ELSE LET init == TypeKeys(SubSeq(trigs, 1, Len(trigs) - 1))
             ty == trigs[Len(trigs)].trigger_type
         IN IF ty \in Range(init) THEN init ELSE Append(init, ty)

TypeCount(trigs, ty) ==
    Cardinality({i \in 1..Len(trigs) : trigs[i].trigger_type = ty})

\* sorted(items, key=lambda x: x[1], reverse=True): stable, so items of equal
\* count keep their order
RECURSIVE SortByCount(_)
SortByCount(items) ==
    IF items = << >> THEN << >>
    ELSE LET init == SortByCount(SubSeq(items, 1, Len(items) - 1))
             x == items[Len(items)]
             k == Cardinality({i \in 1..Len(init) : init[i][2] >= x[2]})
         IN SubSeq(init, 1, k) \o <<x>> \o SubSeq(init, k + 1, Len(init))

TriggerPatterns(user, trigs) ==
    LET mine == to_list(Find(trigs, user.id, None, None), TriggerListLimit)
        keys == TypeKeys(mine)
        type_counts == [i \in 1..Len(keys) |-> <<keys[i], TypeCount(mine, keys[i])>>]
        sorted_types == SortByCount(type_counts)
    IN Ok("get_trigger_patterns", user.id,
          [total_triggers |-> Len(mine),
           by_type |-> type_counts,
           most_common |-> IF sorted_types # << >>
                           THEN Some(sorted_types[1][1]) ELSE None,
           top_triggers |-> to_list(sorted_types, TopLimit)])

-----------------------------------------------------------------------------
(* Subscriptions and insights *)

SUBSCRIPTION_PLANS == {"premium_monthly", "premium_yearly"}

MonthlyPeriodDays == 30

YearlyPeriodDays == 365

\* 365 if "yearly" in plan_id else 30
PeriodDays(plan_id) ==
    IF plan_id = "premium_yearly" THEN YearlyPeriodDays ELSE MonthlyPeriodDays

\* MOCKED_INSIGHTS: id -> premium
MOCKED_INSIGHTS ==
    <<[id |-> 1, premium |-> FALSE], [id |-> 2, premium |-> FALSE],
      [id |-> 3, premium |-> FALSE], [id |-> 4, premium |-> TRUE],
      [id |-> 5, premium |-> TRUE]>>

Insights(user) ==
    LET is_premium == user.subscription_status = "premium"
        Shown(i) == ~i.premium \/ is_premium
    IN Ok("get_insights", user.id,
          [insights |-> SelectSeq(MOCKED_INSIGHTS, Shown),
           is_premium |-> is_premium])

\* bcrypt.hashpw / bcrypt.checkpw
hash_password(password) == <<"bcrypt", password>>

verify_password(password, hashed) == hashed = <<"bcrypt", password>>

\* user_to_response: the document without its password hash; a document
\* created by telegram_auth has no email, one created by register no
\* telegram_id
user_to_response(user) ==
    [id |-> user.id,
     email |-> IF "email" \in DOMAIN user THEN user.email ELSE None,
     name |-> user.name,
     telegram_id |-> IF "telegram_id" \in DOMAIN user
                     THEN Some(user.telegram_id) ELSE None,
     cigarettes_per_day |-> user.cigarettes_per_day,
     cost_per_pack |-> user.cost_per_pack,
     cigarettes_per_pack |-> user.cigarettes_per_pack,
     quit_date |-> user.quit_date,
     subscription_status |-> user.subscription_status,
     subscription_end |-> user.subscription_end,
     created_at |-> user.created_at]

\* JWT_EXPIRATION_HOURS, scaled to the model's clock
ExpirationTicks == 3

\* create_token: the payload, its subject and its expiry, signed with
\* JWT_SECRET
create_token(user_id) ==
    [sub |-> user_id, exp |-> clock + ExpirationTicks, signed |-> TRUE]

\* A string that does not decode as a JWT signed with JWT_SECRET
MalformedToken == [sub |-> 0, exp |-> 0, signed |-> FALSE]

\* The Authorization header: no header is scheme ""
NoAuthorization == [scheme |-> "", token |-> MalformedToken]

Bearer(token) == [scheme |-> "Bearer", token |-> token]

get_current_user_IgnoringSignature(authorization) ==
    LET token == authorization.token
    IN IF authorization.scheme # "Bearer"
       THEN [detail |-> "Not authenticated", user_id |-> 0]
       ELSE IF clock >= token.exp /\ token.signed
       THEN [detail |-> "Token expired", user_id |-> 0]
       ELSE IF token.sub = 0
       THEN [detail |-> "Invalid token", user_id |-> 0]
       ELSE IF FindUser(token.sub) = 0
       THEN [detail |-> "User not found", user_id |-> 0]
       ELSE [detail |-> "", user_id |-> token.sub]

\* get_current_user: the detail of the 401 it raises, or "" and the id of
\* the user document it returns.  A payload with no sub is sub = 0.
get_current_user(authorization) ==
    LET token == authorization.token
    IN IF authorization.scheme # "Bearer"
       THEN [detail |-> "Not authenticated", user_id |-> 0]
       ELSE IF ~token.signed
       THEN [detail |-> "Invalid token", user_id |-> 0]
       ELSE IF clock >= token.exp
       THEN [detail |-> "Token expired", user_id |-> 0]
       ELSE IF token.sub = 0
       THEN [detail |-> "Invalid token", user_id |-> 0]
       ELSE IF FindUser(token.sub) = 0
       THEN [detail |-> "User not found", user_id |-> 0]
       ELSE [detail |-> "", user_id |-> token.sub]

-----------------------------------------------------------------------------
(* The state after construction: an empty database *)

Init ==
    /\ clock = 0
    /\ users = << >>
    /\ events = << >>
    /\ triggers = << >>
    /\ payment_transactions = << >>
    /\ inflight = {}
    /\ reading = << >>
    /\ registering = << >>
    /\ checking = << >>
    /\ resp = NoResp

-----------------------------------------------------------------------------
(* The wall clock advances by d ticks *)

Tick(d) ==
    /\ clock' = clock + d
    /\ resp' = NoResp
    /\ UNCHANGED <<users, events, triggers, payment_transactions, inflight,
                   reading, registering, checking>>

-----------------------------------------------------------------------------
(* Authentication routes *)

\* db.users.find_one({"email": email}) finds a document
EmailRegistered(email) ==
    \E i \in 1..Len(users) :
        "email" \in DOMAIN users[i] /\ users[i].email = email

\* The document register builds: the id is fresh, created_at is the clock at
\* the time of building, quit_date defaults to the date of that clock
NewUser(user_data, now) ==
    [id |-> Len(users) + 1,
     email |-> user_data.email,
     password_hash |-> hash_password(user_data.password),
     name |-> user_data.name,
     cigarettes_per_day |-> user_data.cigarettes_per_day,
     cost_per_pack |-> user_data.cost_per_pack,
     cigarettes_per_pack |-> user_data.cigarettes_per_pack,
     quit_date |-> IF user_data.quit_date = None
                      \/ user_data.quit_date = Some(<< >>)
                   THEN DatePrefix(now)
                   ELSE user_data.quit_date[1],
     subscription_status |-> "free",
     subscription_end |-> None,
     created_at |-> now]

\* register with no other request running between its steps
register(user_data) ==
    LET user == NewUser(user_data, isoformat(clock))
    IN IF EmailRegistered(user_data.email)
       THEN /\ resp' = HTTPException("register", 0, 400, "Email already registered")
            /\ UNCHANGED <<clock, users, events, triggers,
                           payment_transactions, inflight, reading,
                           registering, checking>>
       ELSE /\ users' = Append(users, user)
            /\ resp' = Ok("register", user.id,
                          [access_token |-> create_token(user.id),
                           user |-> user_to_response(user)])
            /\ UNCHANGED <<clock, events, triggers, payment_transactions,
                           inflight, reading, registering, checking>>

\* register up to the answer of find_one: the request is refused, or goes on
\* to build and insert its document
register_begin(user_data) ==
    /\ IF EmailRegistered(user_data.email)
       THEN /\ resp' = HTTPException("register", 0, 400, "Email already registered")
            /\ UNCHANGED registering
       ELSE /\ registering' = Append(registering, user_data)
            /\ resp' = NoResp
    /\ UNCHANGED <<clock, users, events, triggers, payment_transactions,
                   inflight, reading, checking>>

\* The request at position i builds its document, insert_one completes and
\* register returns the token
register_insert(i) ==
    LET user == NewUser(registering[i], isoformat(clock))
    IN /\ i \in 1..Len(registering)
       /\ users' = Append(users, user)
       /\ registering' = SubSeq(registering, 1, i - 1)
                            \o SubSeq(registering, i + 1, Len(registering))
       /\ resp' = Ok("register", user.id,
                     [access_token |-> create_token(user.id),
                      user |-> user_to_response(user)])
       /\ UNCHANGED <<clock, events, triggers, payment_transactions, inflight,
                      reading, checking>>

login(login_data) ==
    LET found == {i \in 1..Len(users) :
                    "email" \in DOMAIN users[i]
                    /\ users[i].email = login_data.email}
        user == users[CHOOSE i \in found : \A j \in found : i <= j]
    IN /\ resp' = IF found = {}
                     \/ ~verify_password(login_data.password, user.password_hash)
                  THEN HTTPException("login", 0, 401, "Invalid credentials")
                  ELSE Ok("login", user.id,
                          [access_token |-> create_token(user.id),
                           user |-> user_to_response(user)])
       /\ UNCHANGED <<clock, users, events, triggers, payment_transactions,
                      inflight, reading, registering, checking>>

\* db.users.find_one({"telegram_id": telegram_id}): the position of the
\* first match, 0 when there is none
FindTelegram(telegram_id) ==
    LET found == {i \in 1..Len(users) :
                    "telegram_id" \in DOMAIN users[i]
                    /\ users[i].telegram_id = telegram_id}
    IN IF found = {} THEN 0 ELSE CHOOSE i \in found : \A j \in found : i <= j

\* f"{first_name} {last_name}".strip()
TelegramName(auth_data) ==
    IF auth_data.last_name = ""
    THEN auth_data.first_name
    ELSE <<auth_data.first_name, " ", auth_data.last_name>>

\* The document telegram_auth builds for a telegram_id it has not seen
NewTelegramUser(auth_data, now) ==
    [id |-> Len(users) + 1,
     telegram_id |-> auth_data.telegram_id,
     name |-> TelegramName(auth_data),
     username |-> auth_data.username,
     cigarettes_per_day |-> DefaultCigarettesPerDay,
     cost_per_pack |-> DefaultCostPerPack,
     cigarettes_per_pack |-> DefaultCigarettesPerPack,
     quit_date |-> DatePrefix(now),
     subscription_status |-> "free",
     subscription_end |-> None,
     created_at |-> now]

\* POST /auth/telegram: the telegram_id of the request is trusted
telegram_auth(auth_data) ==
    LET k == FindTelegram(auth_data.telegram_id)
        user == IF k = 0 THEN NewTelegramUser(auth_data, isoformat(clock))
                ELSE users[k]
    IN /\ users' = IF k = 0 THEN Append(users, user) ELSE users
       /\ resp' = Ok("telegram_auth", user.id,
                     [access_token |-> create_token(user.id),
                      user |-> user_to_response(user)])
       /\ UNCHANGED <<clock, events, triggers, payment_transactions, inflight,
                      reading, registering, checking>>

\* GET /auth/me
get_me(authorization) ==
    LET auth == get_current_user(authorization)
    IN /\ resp' = IF auth.detail # ""
                  THEN HTTPException("get_me", 0, 401, auth.detail)
                  ELSE Ok("get_me", auth.user_id,
                          user_to_response(CurrentUser(auth.user_id)))
       /\ UNCHANGED <<clock, users, events, triggers, payment_transactions,
                      inflight, reading, registering, checking>>

\* The routes that depend on get_current_user, get_me apart
ProtectedOps ==
    {"create_event", "create_trigger", "update_profile", "get_progress_summary",
     "get_weekly_progress", "get_monthly_progress", "get_trigger_patterns",
     "get_insights", "create_checkout", "get_checkout_status"}

\* A request to a protected route whose Depends(get_current_user) raises:
\* the handler's body is not entered
unauthenticated(op, authorization) ==
    LET auth == get_current_user(authorization)
    IN /\ op \in ProtectedOps
       /\ auth.detail # ""
       /\ resp' = HTTPException(op, 0, 401, auth.detail)
       /\ UNCHANGED <<clock, users, events, triggers, payment_transactions,
                      inflight, reading, registering, checking>>

-----------------------------------------------------------------------------
(* Events and triggers *)

\* The document create_event builds: the id is fresh, created_at is the clock
\* at the time of building
NewEvent(user, event_data, now) ==
    [id |-> Len(events) + Cardinality(inflight) + 1,
     user_id |-> user.id,
     event_type |-> event_data.event_type,
     context |-> IF event_data.context = None THEN "" ELSE event_data.context[1],
     intensity |-> IF event_data.intensity = None \/ event_data.intensity = Some(0)
                   THEN 5 ELSE event_data.intensity[1],
     created_at |-> isoformat(now)]

\* create_event with no other request running between its steps
create_event(uid, event_data) ==
    LET event == NewEvent(CurrentUser(uid), event_data, clock)
    IN /\ uid \in Authenticated
       /\ events' = Append(events, event)
       /\ resp' = Ok("create_event", uid, event)
       /\ UNCHANGED <<clock, users, triggers, payment_transactions, inflight,
                      reading, registering, checking>>

\* create_event up to its await of insert_one: the document is built and
\* not yet in the collection
create_event_begin(uid, event_data) ==
    /\ uid \in Authenticated
    /\ inflight' = inflight \cup {NewEvent(CurrentUser(uid), event_data, clock)}
    /\ resp' = NoResp
    /\ UNCHANGED <<clock, users, events, triggers, payment_transactions,
                   reading, registering, checking>>

create_event_insert_Replacing(event) ==
    /\ event \in inflight
    /\ inflight' = inflight \ {event}
    /\ events' = IF events = << >> THEN <<event>>
                 ELSE [events EXCEPT ![Len(events)] = event]
    /\ resp' = Ok("create_event", event.user_id, event)
    /\ UNCHANGED <<clock, users, triggers, payment_transactions, reading, registering, checking>>

\* insert_one completes and create_event returns the document
create_event_insert(event) ==
    /\ event \in inflight
    /\ inflight' = inflight \ {event}
    /\ events' = Append(events, event)
    /\ resp' = Ok("create_event", event.user_id, event)
    /\ UNCHANGED <<clock, users, triggers, payment_transactions, reading, registering, checking>>

create_trigger(uid, trigger_data) ==
    LET user == CurrentUser(uid)
        trigger == [id |-> Len(triggers) + 1,
                    user_id |-> user.id,
                    trigger_type |-> trigger_data.trigger_type,
                    description |-> IF trigger_data.description = None THEN ""
                                    ELSE trigger_data.description[1],
                    location |-> IF trigger_data.location = None THEN ""
                                 ELSE trigger_data.location[1],
                    created_at |-> isoformat(clock)]
    IN /\ uid \in Authenticated
       /\ triggers' = Append(triggers, trigger)
       /\ resp' = Ok("create_trigger", uid, trigger)
       /\ UNCHANGED <<clock, users, events, payment_transactions, inflight,
                      reading, registering, checking>>

get_trigger_patterns(uid) ==
    /\ uid \in Authenticated
    /\ resp' = TriggerPatterns(CurrentUser(uid), triggers)
    /\ UNCHANGED <<clock, users, events, triggers, payment_transactions,
                   inflight, reading, registering, checking>>

-----------------------------------------------------------------------------
(* Progress routes *)

get_progress_summary(uid) ==
    /\ uid \in Authenticated
    /\ resp' = ProgressSummary(CurrentUser(uid), events, clock)
    /\ UNCHANGED <<clock, users, events, triggers, payment_transactions,
                   inflight, reading, registering, checking>>

get_weekly_progress(uid) ==
    /\ uid \in Authenticated
    /\ resp' = WeeklyProgress(CurrentUser(uid), events, clock)
    /\ UNCHANGED <<clock, users, events, triggers, payment_transactions,
                   inflight, reading, registering, checking>>

get_monthly_progress(uid) ==
    /\ uid \in Authenticated
    /\ resp' = MonthlyProgress(CurrentUser(uid), events, clock)
    /\ UNCHANGED <<clock, users, events, triggers, payment_transactions,
                   inflight, reading, registering, checking>>

get_today_stats(uid) ==
    /\ uid \in Authenticated
    /\ resp' = TodayStats(CurrentUser(uid), events, clock)
    /\ UNCHANGED <<clock, users, events, triggers, payment_transactions,
                   inflight, reading, registering, checking>>

get_profile_stats(uid) ==
    /\ uid \in Authenticated
    /\ resp' = ProfileStats(CurrentUser(uid), events, triggers)
    /\ UNCHANGED <<clock, users, events, triggers, payment_transactions,
                   inflight, reading, registering, checking>>

-----------------------------------------------------------------------------
(* The aggregations as the steps they take: each awaits its queries one by  *)
(* one, and other requests run in between.  A request in flight holds the   *)
(* handler's locals: the user document get_current_user returned, the clock *)
(* it read, and the results of the queries answered so far.                 *)

ReadOps ==
    {"get_progress_summary", "get_weekly_progress", "get_monthly_progress",
     "get_trigger_patterns"}

\* The number of queries the handler awaits
Queries(op) ==
    CASE op = "get_weekly_progress" -> DaysInWeek
      [] op = "get_monthly_progress" -> WeeksInMonth
      [] OTHER -> 1

\* What the next query of request r adds to its locals
QueryResult(r) ==
    CASE r.op = "get_weekly_progress" ->
            DayBucket(r.user, events, r.now, Len(r.acc))
      [] r.op = "get_monthly_progress" ->
            WeekBucket(r.user, events, r.now, Len(r.acc))
      [] r.op = "get_progress_summary" ->
            ProgressSummaryAt(r.user, events, r.now, clock)
      [] OTHER -> TriggerPatterns(r.user, triggers)

\* What the handler returns once all its queries are answered
ReadResponse(r, acc) ==
    CASE r.op = "get_weekly_progress" -> Ok(r.op, r.user.id, [days |-> acc])
      [] r.op = "get_monthly_progress" ->
            Ok(r.op, r.user.id, [weeks |-> reversed(acc)])
      [] OTHER -> acc[1]

RemoveAt(s, i) == SubSeq(s, 1, i - 1) \o SubSeq(s, i + 1, Len(s))

\* The handler up to its first query
begin_read(op, uid) ==
    LET user == CurrentUser(uid)
    IN /\ uid \in Authenticated
       /\ IF op = "get_progress_summary" /\ ProgressSummaryRaises(user) # ""
          THEN /\ resp' = Unhandled(op, uid, ProgressSummaryRaises(user))
               /\ UNCHANGED reading
          ELSE /\ reading' = Append(reading, [op |-> op, user |-> user,
                                              now |-> clock, acc |-> << >>])
               /\ resp' = NoResp
       /\ UNCHANGED <<clock, users, events, triggers, payment_transactions,
                      inflight, registering, checking>>

answer_query_Caching(i) ==
    LET r == reading[i]
        acc == Append(r.acc, QueryResult(r))
    IN /\ i \in 1..Len(reading)
       /\ IF Len(acc) < Queries(r.op)
          THEN /\ reading' = [reading EXCEPT ![i].acc = acc]
               /\ resp' = NoResp
          ELSE /\ reading' = RemoveAt(reading, i)
               /\ resp' = ReadResponse(r, acc)
       /\ users' = [users EXCEPT ![FindUser(r.user.id)].name = "cached"]
       /\ UNCHANGED <<clock, events, triggers, payment_transactions, inflight,
                      registering, checking>>

\* A query of the request in flight at position i is answered; the handler
\* returns when it was its last
answer_query(i) ==
    LET r == reading[i]
        acc == Append(r.acc, QueryResult(r))
    IN /\ i \in 1..Len(reading)
       /\ IF Len(acc) < Queries(r.op)
          THEN /\ reading' = [reading EXCEPT ![i].acc = acc]
               /\ resp' = NoResp
          ELSE /\ reading' = RemoveAt(reading, i)
               /\ resp' = ReadResponse(r, acc)
       /\ UNCHANGED <<clock, users, events, triggers, payment_transactions,
                      inflight, registering, checking>>

-----
(* Profile *)

ProfileFields ==
    {"name", "cigarettes_per_day", "cost_per_pack", "cigarettes_per_pack",
     "quit_date"}

\* ProfileUpdate(**body): the request body as the handler receives it.  The
\* model has no extra="allow", so a key that is not one of its fields is
\* dropped, and a field the body leaves out is None
ProfileUpdate_AllowingExtra(body) ==
    [k \in ProfileFields \cup DOMAIN body |->
        IF k \in DOMAIN body THEN Some(body[k]) ELSE None]

ProfileUpdate(body) ==
    [k \in ProfileFields |-> IF k \in DOMAIN body THEN Some(body[k]) ELSE None]

\* {"$set": update_dict}: the fields of profile_data.model_dump() that are
\* not None
ApplyUpdate(user, profile_data) ==
    [k \in DOMAIN user |->
        IF k \in DOMAIN profile_data /\ profile_data[k] # None
        THEN profile_data[k][1] ELSE user[k]]

update_profile(uid, profile_data) ==
    LET user == CurrentUser(uid)
        updated == ApplyUpdate(user, profile_data)
    IN /\ uid \in Authenticated
       /\ users' = [users EXCEPT ![FindUser(uid)] = updated]
       /\ resp' = Ok("update_profile", uid, user_to_response(updated))
       /\ UNCHANGED <<clock, events, triggers, payment_transactions, inflight,
                      reading, registering, checking>>

-----------------------------------------------------------------------------
(* Insights and subscription *)

get_insights(uid) ==
    /\ uid \in Authenticated
    /\ resp' = Insights(CurrentUser(uid))
    /\ UNCHANGED <<clock, users, events, triggers, payment_transactions,
                   inflight, reading, registering, checking>>

create_checkout(uid, plan_id) ==
    LET user == CurrentUser(uid)
        session_id == Len(payment_transactions) + 1
        transaction == [id |-> Len(payment_transactions) + 1,
                        session_id |-> session_id,
                        user_id |-> user.id,
                        plan_id |-> plan_id,
                        payment_status |-> "pending",
                        created_at |-> isoformat(clock)]
    IN /\ uid \in Authenticated
       /\ IF plan_id \notin SUBSCRIPTION_PLANS
          THEN /\ resp' = HTTPException("create_checkout", uid, 400, "Invalid plan")
               /\ UNCHANGED payment_transactions
          ELSE /\ payment_transactions' = Append(payment_transactions, transaction)
               /\ resp' = Ok("create_checkout", uid, [session_id |-> session_id])
       /\ UNCHANGED <<clock, users, events, triggers, inflight, reading, registering, checking>>

\* db.payment_transactions.find_one({"session_id": session_id}): the
\* position of the first match, 0 when there is none
FindTransaction(session_id) ==
    LET found == {i \in 1..Len(payment_transactions) :
                    payment_transactions[i].session_id = session_id}
    IN IF found = {} THEN 0 ELSE CHOOSE i \in found : \A j \in found : i <= j

\* {"$set": {"payment_status": "paid", "updated_at": now}}
SetPaid(transaction, now) ==
    [f \in DOMAIN transaction \cup {"updated_at"} |->
        IF f = "payment_status" THEN "paid"
        ELSE IF f = "updated_at" THEN now
        ELSE transaction[f]]

\* {"$set": {"subscription_status": "premium", "subscription_end": ...}} on
\* the document whose id is uid
SetPremium(uid, subscription_end) ==
    [users EXCEPT
        ![FindUser(uid)].subscription_status = "premium",
        ![FindUser(uid)].subscription_end = Some(subscription_end)]

\* provider_status is what the payment provider answers for the session:
\* "paid", "unpaid", or "error" when its call raises
get_checkout_status(uid, session_id, provider_status) ==
    LET user == CurrentUser(uid)
        found == {i \in 1..Len(payment_transactions) :
                    payment_transactions[i].session_id = session_id}
        k == CHOOSE i \in found : \A j \in found : i <= j
        transaction == payment_transactions[k]
        subscription_end ==
            isoformat(clock + PeriodDays(transaction.plan_id) * TicksPerDay)
    IN /\ uid \in Authenticated
       /\ IF provider_status = "error"
          THEN /\ resp' = HTTPException("get_checkout_status", uid, 400,
                                        "Could not fetch payment status")
               /\ UNCHANGED <<users, payment_transactions>>
          ELSE /\ resp' = Ok("get_checkout_status", uid,
                             [payment_status |-> provider_status])
               /\ IF /\ found # {}
                     /\ transaction.payment_status # "paid"
                     /\ provider_status = "paid"
                  THEN /\ payment_transactions' =
                            [payment_transactions EXCEPT
                                ![k] = SetPaid(transaction, isoformat(clock))]
                       /\ users' = SetPremium(uid, subscription_end)
                  ELSE UNCHANGED <<users, payment_transactions>>
       /\ UNCHANGED <<clock, events, triggers, inflight, reading, registering,
                      checking>>

\* get_checkout_status in the steps its awaits divide it into.  The request
\* enters with the provider's answer to stripe_checkout.get_checkout_status
get_checkout_status_begin(uid, session_id, provider_status) ==
    /\ uid \in Authenticated
    /\ IF provider_status = "error"
       THEN /\ resp' = HTTPException("get_checkout_status", uid, 400,
                                     "Could not fetch payment status")
            /\ UNCHANGED checking
       ELSE /\ checking' = Append(checking,
                                  [uid |-> uid, session_id |-> session_id,
                                   provider_status |-> provider_status,
                                   pc |-> "find_one", k |-> 0,
                                   plan_id |-> "", subscription_end |-> << >>])
            /\ resp' = NoResp
    /\ UNCHANGED <<clock, users, events, triggers, payment_transactions,
                   inflight, reading, registering>>

\* find_one answers the request at position i: the handler returns when no
\* transaction is recorded, it is paid already, or the provider does not say
\* paid; otherwise it goes on to its two updates
get_checkout_status_find(i) ==
    LET c == checking[i]
        k == FindTransaction(c.session_id)
        transaction == payment_transactions[k]
    IN /\ i \in 1..Len(checking)
       /\ c.pc = "find_one"
       /\ IF /\ k # 0
             /\ transaction.payment_status # "paid"
             /\ c.provider_status = "paid"
          THEN /\ checking' = [checking EXCEPT
                                  ![i].pc = "update_transaction",
                                  ![i].k = k,
                                  ![i].plan_id = transaction.plan_id]
               /\ resp' = NoResp
          ELSE /\ checking' = RemoveAt(checking, i)
               /\ resp' = Ok("get_checkout_status", c.uid,
                             [payment_status |-> c.provider_status])
       /\ UNCHANGED <<clock, users, events, triggers, payment_transactions,
                      inflight, reading, registering>>

\* update_one on payment_transactions completes for the request at position
\* i, which then reads the clock for subscription_end
get_checkout_status_update_transaction(i) ==
    LET c == checking[i]
        k == FindTransaction(c.session_id)
    IN /\ i \in 1..Len(checking)
       /\ c.pc = "update_transaction"
       /\ payment_transactions' =
            IF k = 0 THEN payment_transactions
            ELSE [payment_transactions EXCEPT
                    ![k] = SetPaid(payment_transactions[k], isoformat(clock))]
       /\ checking' = [checking EXCEPT
                          ![i].pc = "update_user",
                          ![i].subscription_end =
                              isoformat(clock + PeriodDays(c.plan_id) * TicksPerDay)]
       /\ resp' = NoResp
       /\ UNCHANGED <<clock, users, events, triggers, inflight, reading,
                      registering>>

\* update_one on users completes for the request at position i and the
\* handler returns
get_checkout_status_update_user(i) ==
    LET c == checking[i]
    IN /\ i \in 1..Len(checking)
       /\ c.pc = "update_user"
       /\ users' = SetPremium(c.uid, c.subscription_end)
       /\ checking' = RemoveAt(checking, i)
       /\ resp' = Ok("get_checkout_status", c.uid,
                     [payment_status |-> c.provider_status])
       /\ UNCHANGED <<clock, events, triggers, payment_transactions, inflight,
                      reading, registering>>

\* POST /webhook/stripe: the body is read and logged, nothing else
stripe_webhook ==
    /\ resp' = Ok("stripe_webhook", 0, [status |-> "received"])
    /\ UNCHANGED <<clock, users, events, triggers, payment_transactions,
                   inflight, reading, registering, checking>>

-----------------------------------------------------------------------------
(* Request payloads the model draws from *)

Emails == {"a@x", "b@x"}

\* UserCreate with the defaults of its optional fields
UserCreateOf(email, per_pack) ==
    [email |-> email, password |-> "pw", name |-> "n",
     cigarettes_per_day |-> DefaultCigarettesPerDay,
     cost_per_pack |-> DefaultCostPerPack,
     cigarettes_per_pack |-> per_pack,
     quit_date |-> None]

\* EventCreate with the defaults of its optional fields
EventCreateOf(ty) == [event_type |-> ty, context |-> Some(""), intensity |-> Some(5)]

\* ProfileUpdate with one field given
NoUpdate == [k \in ProfileFields |-> None]

SetField(k, v) == [NoUpdate EXCEPT ![k] = Some(v)]

\* A string that is no ISO date: a date followed by an hour out of range
Garbage == <<0, SecPerDay>>

------------------------------------------------------------------------
\* Accounts are created in the first ticks of a run
MaxClockRegister == 1

-----------------------------------------------------------------------------
(* Progress summary: one account, its profile, its cigarette log, the clock *)

MaxClockSummary == 8

MaxEventsSummary == 2

FutureDay == MaxClockSummary \div TicksPerDay + 1

\* ProfileUpdate with the three fields the summary reads
SummaryUpdate(per_day, per_pack, quit_date) ==
    [NoUpdate EXCEPT !["cigarettes_per_day"] = Some(per_day),
                     !["cigarettes_per_pack"] = Some(per_pack),
                     !["quit_date"] = Some(quit_date)]

QuitDatesSummary ==
    {<<0>>, <<1>>, <<FutureDay>>, << >>, Garbage, isoformat(MicrosPerSec + 1)}

ProfileUpdatesSummary ==
    {SummaryUpdate(DefaultCigarettesPerDay, DefaultCigarettesPerPack, q) :
        q \in QuitDatesSummary}
    \cup {SummaryUpdate(-1, DefaultCigarettesPerPack, q) : q \in {<<0>>, <<FutureDay>>}}
    \cup {SummaryUpdate(DefaultCigarettesPerDay, n, <<0>>) : n \in {0, 3}}
    \cup {SummaryUpdate(DefaultCigarettesPerDay, 0, << >>)}

NextSummary ==
    \/ \E d \in {1, TicksPerDay} : clock + d <= MaxClockSummary /\ Tick(d)
    \/ \E n \in {0, DefaultCigarettesPerPack} :
          /\ users = << >>
          /\ clock <= MaxClockRegister
          /\ register(UserCreateOf("a@x", n))
    \/ \E uid \in Authenticated, p \in ProfileUpdatesSummary : update_profile(uid, p)
    \/ \E uid \in Authenticated, ty \in {"cigarette", "urge"} :
          Len(events) < MaxEventsSummary /\ create_event(uid, EventCreateOf(ty))
    \/ \E uid \in Authenticated : get_progress_summary(uid)

SpecSummary == Init /\ [][NextSummary]_vars

-----------------------------------------------------------------------------
(* Daily buckets: one account, its event log, the clock *)

NextWeeklyOf(maxClock, maxEvents) ==
    \/ \E d \in {1, TicksPerDay} : clock + d <= maxClock /\ Tick(d)
    \/ /\ users = << >>
       /\ clock <= MaxClockRegister
       /\ register(UserCreateOf("a@x", DefaultCigarettesPerPack))
    \/ \E uid \in Authenticated, ty \in {"cigarette", "urge"} :
          Len(events) < maxEvents /\ create_event(uid, EventCreateOf(ty))
    \/ \E uid \in Authenticated : get_weekly_progress(uid)

\* Over more than a week, with a log no query truncates
MaxClockWeekly == 30

MaxEventsWeekly == 2

SpecWeekly == Init /\ [][NextWeeklyOf(MaxClockWeekly, MaxEventsWeekly)]_vars

\* Over a day and a half, with more events than a query returns
MaxClockBusy == 6

MaxEventsBusy == 3

SpecBusyDay == Init /\ [][NextWeeklyOf(MaxClockBusy, MaxEventsBusy)]_vars

-----------------------------------------------------------------------------
(* Weekly buckets: one account, its event log, the clock over a month *)

\* The clock runs for up to MaxWeeksMonthly weeks and is at most
\* MaxOffsetMonthly ticks past a whole number of weeks
MaxWeeksMonthly == 4

MaxOffsetMonthly == 2

MaxEventsMonthly == 3

TicksPerWeek == DaysInWeek * TicksPerDay

NextMonthly ==
    \/ clock % TicksPerWeek < MaxOffsetMonthly /\ Tick(1)
    \/ clock \div TicksPerWeek < MaxWeeksMonthly /\ Tick(TicksPerWeek)
    \/ /\ users = << >>
       /\ clock <= MaxClockRegister
       /\ register(UserCreateOf("a@x", DefaultCigarettesPerPack))
    \/ \E uid \in Authenticated, ty \in {"cigarette", "urge"} :
          Len(events) < MaxEventsMonthly /\ create_event(uid, EventCreateOf(ty))
    \/ \E uid \in Authenticated : get_monthly_progress(uid)

SpecMonthly == Init /\ [][NextMonthly]_vars

-----------------------------------------------------------------------------
(* The API: every route, with create_event in its two steps *)

MaxClock == 1

MaxUsers == 1

MaxEvents == 2

MaxTriggers == 1

MaxTransactions == 1

ProfileUpdates == {SetField("cigarettes_per_pack", 0)}

Next ==
    \/ clock < MaxClock /\ Tick(1)
    \/ \E e \in Emails :
          /\ Len(users) < MaxUsers
          /\ clock <= MaxClockRegister
          /\ register(UserCreateOf(e, DefaultCigarettesPerPack))
    \/ \E e \in Emails, pw \in {"pw", "guess"} : login([email |-> e, password |-> pw])
    \/ \E uid \in Authenticated :
          /\ Len(events) + Cardinality(inflight) < MaxEvents
          /\ create_event_begin(uid, EventCreateOf("cigarette"))
    \/ \E e \in inflight : create_event_insert(e)
    \/ \E uid \in Authenticated :
          /\ Len(triggers) < MaxTriggers
          /\ create_trigger(uid, [trigger_type |-> "stress", description |-> None,
                                  location |-> None])
    \/ \E uid \in Authenticated, p \in ProfileUpdates : update_profile(uid, p)
    \/ \E uid \in Authenticated : get_progress_summary(uid)
    \/ \E uid \in Authenticated : get_weekly_progress(uid)
    \/ \E uid \in Authenticated : get_monthly_progress(uid)
    \/ \E uid \in Authenticated : get_trigger_patterns(uid)
    \/ \E uid \in Authenticated : get_insights(uid)
    \/ \E uid \in Authenticated, plan \in SUBSCRIPTION_PLANS \cup {"premium_weekly"} :
          /\ Len(payment_transactions) < MaxTransactions
          /\ create_checkout(uid, plan)
    \/ \E uid \in Authenticated, sid \in 1..MaxTransactions,
          st \in {"paid", "unpaid", "error"} :
          get_checkout_status(uid, sid, st)

Spec == Init /\ [][Next]_vars

-----------------------------------------------------------------------------
(* Aggregations running concurrently with each other; the store is written *)
(* between them                                                            *)

MaxClockReaders == 1

MaxUsersReaders == 2

MaxEventsReaders == 1

MaxReaders == 2

NextReaders ==
    \/ clock < MaxClockReaders /\ Tick(1)
    \/ \E e \in Emails :
          /\ reading = << >>
          /\ Len(users) < MaxUsersReaders
          /\ clock <= MaxClockRegister
          /\ register(UserCreateOf(e, DefaultCigarettesPerPack))
    \/ \E uid \in Authenticated :
          /\ reading = << >>
          /\ Len(events) < MaxEventsReaders
          /\ create_event(uid, EventCreateOf("cigarette"))
    \/ \E uid \in Authenticated :
          /\ reading = << >>
          /\ Len(triggers) < MaxTriggers
          /\ create_trigger(uid, [trigger_type |-> "stress", description |-> None,
                                  location |-> None])
    \/ \E op \in ReadOps, uid \in Authenticated :
          Len(reading) < MaxReaders /\ begin_read(op, uid)
    \/ \E i \in 1..Len(reading) : answer_query(i)

SpecReaders == Init /\ [][NextReaders]_vars

-----------------------------------------------------------------------------
(* Trigger patterns: a user's trigger log of up to seven records of up to  *)
(* six types, beside another user's                                        *)

TriggerTypes == <<"stress", "boredom", "social", "habit", "other", "coffee">>

TriggerCreateOf(ty) == [trigger_type |-> ty, description |-> None, location |-> None]

MaxTriggersPatterns == 7

MaxOtherTriggers == 1

\* The number of trigger types logged so far
TypesLogged == Cardinality({triggers[i].trigger_type : i \in 1..Len(triggers)})

TriggersOf(uid) == {i \in 1..Len(triggers) : triggers[i].user_id = uid}

\* The types come into use in the order of TriggerTypes
NextTriggers ==
    \/ \E e \in Emails :
          /\ Len(users) < MaxUsersReaders
          /\ register(UserCreateOf(e, DefaultCigarettesPerPack))
    \/ \E k \in 1..Len(TriggerTypes) :
          /\ 1 \in Authenticated
          /\ k <= TypesLogged + 1
          /\ Cardinality(TriggersOf(1)) < MaxTriggersPatterns
          /\ create_trigger(1, TriggerCreateOf(TriggerTypes[k]))
    \/ \E uid \in Authenticated \ {1} :
          /\ Cardinality(TriggersOf(uid)) < MaxOtherTriggers
          /\ create_trigger(uid, TriggerCreateOf(TriggerTypes[1]))
    \/ \E uid \in Authenticated : get_trigger_patterns(uid)

SpecTriggers == Init /\ [][NextTriggers]_vars

-----------------------------------------------------------------------------
(* Authentication: tokens issued, used later, expired, forged or broken *)

MaxClockAuth == 3

MaxUsersAuth == 2

MaxEventsAuth == 1

\* The headers a client may send: none, another scheme, an undecodable
\* token, and signed payloads naming no user, a user, or an id not in use
AuthHeaders ==
    {NoAuthorization,
     [scheme |-> "Basic", token |-> [sub |-> 1, exp |-> MaxClockAuth + 1, signed |-> TRUE]],
     Bearer(MalformedToken),
     Bearer([sub |-> 1, exp |-> MaxClockAuth + 1, signed |-> FALSE])}
    \cup {Bearer([sub |-> u, exp |-> e, signed |-> TRUE]) :
             u \in 0..(MaxUsersAuth + 1),
             e \in {ExpirationTicks, ExpirationTicks + 1,
                     MaxClockAuth + ExpirationTicks}}

NextAuth ==
    \/ clock < MaxClockAuth /\ Tick(1)
    \/ \E e \in Emails :
          /\ Len(users) < MaxUsersAuth
          /\ clock <= MaxClockRegister
          /\ register(UserCreateOf(e, DefaultCigarettesPerPack))
    \/ login([email |-> "a@x", password |-> "pw"])
    \/ \E uid \in Authenticated :
          /\ CurrentUser(uid).name = "n"
          /\ update_profile(uid, SetField("name", "m"))
    \/ \E uid \in Authenticated :
          Len(events) < MaxEventsAuth /\ create_event(uid, EventCreateOf("urge"))
    \/ \E a \in AuthHeaders : get_me(a)
    \/ \E a \in AuthHeaders, op \in {"create_event", "update_profile"} :
          unauthenticated(op, a)

SpecAuth == Init /\ [][NextAuth]_vars

-----------------------------------------------------------------------------
(* Registration: concurrent register requests, each in its two steps *)

MaxRegistrations == 3

NextRegister ==
    \/ clock <= MaxClockRegister /\ Tick(1)
    \/ \E e \in Emails, n \in {"n", "m"} :
          /\ Len(users) + Len(registering) < MaxRegistrations
          /\ register_begin([UserCreateOf(e, DefaultCigarettesPerPack)
                                EXCEPT !.name = n])
    \/ \E i \in 1..Len(registering) : register_insert(i)
    \/ \E e \in Emails, pw \in {"pw", "guess"} : login([email |-> e, password |-> pw])

SpecRegister == Init /\ [][NextRegister]_vars

-----------------------------------------------------------------------------
(* Two accounts, each logging events and triggers and reading its aggregates *)

MaxClockIsolation == 4

MaxEventsIsolation == 2

MaxTriggersIsolation == 1

NextIsolation ==
    \/ \E d \in {1, TicksPerDay} : clock + d <= MaxClockIsolation /\ Tick(d)
    \/ \E e \in Emails :
          /\ clock = 0
          /\ register(UserCreateOf(e, DefaultCigarettesPerPack))
    \/ \E uid \in Authenticated :
          /\ Len(events) < MaxEventsIsolation
          /\ create_event(uid, EventCreateOf("cigarette"))
    \/ \E uid \in Authenticated :
          /\ Len(triggers) < MaxTriggersIsolation
          /\ create_trigger(uid, TriggerCreateOf(TriggerTypes[1]))
    \/ \E uid \in Authenticated : get_progress_summary(uid)
    \/ \E uid \in Authenticated : get_weekly_progress(uid)
    \/ \E uid \in Authenticated : get_monthly_progress(uid)
    \/ \E uid \in Authenticated : get_trigger_patterns(uid)
    \/ \E uid \in Authenticated : get_today_stats(uid)
    \/ \E uid \in Authenticated : get_profile_stats(uid)

SpecIsolation == Init /\ [][NextIsolation]_vars

-----
(* What the claims speak of *)

\* The instant a date or timestamp string denotes, -1 if it denotes none
InstantOf(s) ==
    LET Horizon == 0..(clock + (DaysInWeek + 1) * TicksPerDay)
    IN IF Len(s) = 1 /\ s[1] >= 0 THEN s[1] * TicksPerDay
       ELSE IF \E t \in Horizon : isoformat(t) = s
            THEN CHOOSE t \in Horizon : isoformat(t) = s
       ELSE -1

\* The user's events of one type, as a set
EventsOf(uid, ty) ==
    {e \in Range(events) : e.user_id = uid /\ e.event_type = ty}

\* Whole days from instant t until now
WholeDaysSince(t) ==
    CHOOSE k \in -(FutureDay + DaysInWeek)..(clock + 1) :
        k * TicksPerDay <= clock - t /\ clock - t < (k + 1) * TicksPerDay

SummaryAnswered == resp.op = "get_progress_summary" /\ resp.status = 200

\* C1: when the user's quit_date is D >= 0 whole days ago and the user's latest
\* cigarette event, logged strictly after quit_date, is K whole days ago, the
\* summary returns current_streak = K and days_smoke_free = D.
C1_StreakResetsDaysStay ==
    SummaryAnswered =>
        LET user == CurrentUser(resp.uid)
            quit == InstantOf(user.quit_date)
            cigs == EventsOf(resp.uid, "cigarette")
        IN \A e \in cigs :
              LET t == InstantOf(e.created_at)
              IN (/\ quit >= 0
                  /\ quit <= clock
                  /\ t > quit
                  /\ \A f \in cigs : InstantOf(f.created_at) <= t)
                 => /\ resp.body.current_streak = WholeDaysSince(t)
                    /\ resp.body.days_smoke_free = WholeDaysSince(quit)

\* A summary for a user who quit two days ago and last smoked one day ago,
\* having smoked before that as well
C1_Witness ==
    /\ SummaryAnswered
    /\ resp.body.current_streak = 1
    /\ resp.body.days_smoke_free = 2
    /\ \E e, f \in EventsOf(resp.uid, "cigarette") :
          /\ InstantOf(e.created_at) > InstantOf(CurrentUser(resp.uid).quit_date)
          /\ InstantOf(f.created_at) < InstantOf(e.created_at)
          /\ WholeDaysSince(InstantOf(e.created_at)) = 1

\* num/den rounded to the nearest integer is m
IsNearest(m, num, den) ==
    /\ 2 * (m * den - num) <= den
    /\ 2 * (num - m * den) <= den

\* C2 as stated: for a user with cigarettes_per_pack > 0 (and the data model's
\* cigarettes_per_day >= 0, cost_per_pack >= 0) and no cigarette event after
\* quit_date, cigarettes_avoided = days_smoke_free * cigarettes_per_day,
\* money_saved = round(days_smoke_free * cigarettes_per_day * cost_per_pack /
\* cigarettes_per_pack, 2), and current_streak = days_smoke_free.
C2_AsStated ==
    SummaryAnswered =>
        LET user == CurrentUser(resp.uid)
            quit == InstantOf(user.quit_date)
            b == resp.body
        IN (/\ user.cigarettes_per_pack > 0
            /\ user.cigarettes_per_day >= 0
            /\ user.cost_per_pack >= 0
            /\ quit >= 0
            /\ \A e \in EventsOf(resp.uid, "cigarette") :
                  InstantOf(e.created_at) <= quit)
           => /\ b.cigarettes_avoided = b.days_smoke_free * user.cigarettes_per_day
              /\ IsNearest(b.money_saved,
                           b.days_smoke_free * user.cigarettes_per_day
                              * user.cost_per_pack,
                           user.cigarettes_per_pack)
              /\ b.current_streak = b.days_smoke_free

\* C2 amended: the two formulas as stated; current_streak = days_smoke_free
\* when the user has no cigarette event at all.
C2_SavingsFormula ==
    SummaryAnswered =>
        LET user == CurrentUser(resp.uid)
            quit == InstantOf(user.quit_date)
            b == resp.body
        IN (/\ user.cigarettes_per_pack > 0
            /\ user.cigarettes_per_day >= 0
            /\ user.cost_per_pack >= 0
            /\ quit >= 0
            /\ \A e \in EventsOf(resp.uid, "cigarette") :
                  InstantOf(e.created_at) <= quit)
           => /\ b.cigarettes_avoided = b.days_smoke_free * user.cigarettes_per_day
              /\ IsNearest(b.money_saved,
                           b.days_smoke_free * user.cigarettes_per_day
                              * user.cost_per_pack,
                           user.cigarettes_per_pack)
              /\ (EventsOf(resp.uid, "cigarette") = {}
                     => b.current_streak = b.days_smoke_free)

\* A summary two days after quitting with nothing smoked, where the money
\* saved is not a whole number of cents before rounding
C2_Witness ==
    /\ SummaryAnswered
    /\ EventsOf(resp.uid, "cigarette") = {}
    /\ CurrentUser(resp.uid).cigarettes_per_pack = 3
    /\ resp.body.days_smoke_free = 2
    /\ resp.body.current_streak = 2
    /\ resp.body.cigarettes_avoided = 2 * DefaultCigarettesPerDay
    /\ resp.body.money_saved > 0

\* C3: with cigarettes_per_pack = 0 (and a quit_date that parses or is empty)
\* the summary request ends in a client-facing error response (4xx), never in
\* an unhandled exception and never in a summary.
C3_ZeroPackIsConfigurationError ==
    (/\ resp.op = "get_progress_summary"
     /\ CurrentUser(resp.uid).cigarettes_per_pack = 0
     /\ (CurrentUser(resp.uid).quit_date = << >>
            \/ InstantOf(CurrentUser(resp.uid).quit_date) >= 0))
    => resp.status \in 400..499

\* C4: every counter of every summary returned is >= 0.
C4_CountersNonNegative ==
    SummaryAnswered =>
        /\ resp.body.days_smoke_free >= 0
        /\ resp.body.current_streak >= 0
        /\ resp.body.cigarettes_avoided >= 0
        /\ resp.body.money_saved >= 0

\* A summary for a user whose quit_date is in the future and whose
\* cigarettes_per_day is negative
C4_Witness ==
    /\ SummaryAnswered
    /\ InstantOf(CurrentUser(resp.uid).quit_date) > clock + TicksPerDay
    /\ CurrentUser(resp.uid).cigarettes_per_day < 0
    /\ resp.body.days_smoke_free = 0

-----------------------------------------------------------------------------
(* Daily buckets *)

WeeklyAnswered == resp.op = "get_weekly_progress" /\ resp.status = 200

RECURSIVE SumOver(_, _)
SumOver(buckets, key) ==
    IF buckets = << >> THEN 0
    ELSE Head(buckets)[key] + SumOver(Tail(buckets), key)

\* The user's events of one type created from instant lo to instant hi
EventsBetween(uid, ty, lo, hi) ==
    {e \in EventsOf(uid, ty) :
        lo <= InstantOf(e.created_at) /\ InstantOf(e.created_at) <= hi}

Today == clock \div TicksPerDay

\* C5: the cigarettes of the 7 daily buckets add up to the number of the
\* user's cigarette events created from 00:00:00 six days ago to
\* 23:59:59.999999 today, whatever the size of the log.
C5_DailySumIsWindowCount ==
    WeeklyAnswered =>
        SumOver(resp.body.days, "cigarettes") =
            Cardinality(EventsBetween(resp.uid, "cigarette",
                                      (Today - 6) * TicksPerDay,
                                      (Today + 1) * TicksPerDay - 1))

\* C6: exactly 7 buckets, oldest first, dated with the 7 consecutive UTC
\* calendar days that end today.
C6_SevenConsecutiveDays ==
    WeeklyAnswered =>
        /\ Len(resp.body.days) = 7
        /\ \A k \in 1..Len(resp.body.days) :
              resp.body.days[k].date = <<Today - 7 + k>>

\* Daily buckets returned after more than a week, with a cigarette counted
\* three days ago and an event older than the week
C6_Witness ==
    /\ WeeklyAnswered
    /\ Today >= 7
    /\ resp.body.days[4].cigarettes = 1
    /\ SumOver(resp.body.days, "cigarettes") + SumOver(resp.body.days, "urges")
          < Len(events)

-----------------------------------------------------------------------------
(* Weekly buckets *)

MonthlyAnswered == resp.op = "get_monthly_progress" /\ resp.status = 200

\* The documents a query for the user's events created from instant lo to
\* instant hi returns: those events in insertion order, up to the cap
Returned(uid, lo, hi) ==
    to_list(SelectSeq(events,
                      LAMBDA e : /\ e.user_id = uid
                                 /\ lo <= InstantOf(e.created_at)
                                 /\ InstantOf(e.created_at) <= hi),
            ToListLimit)

\* C7: exactly 4 buckets, labelled Week 1 to Week 4 in that order, the bucket
\* labelled Week k being the window [now - (5-k)*7d, now - (4-k)*7d]: Week 4 is
\* [now - 7d, now] and Week 1 is [now - 28d, now - 21d].  A bucket is dated
\* with the two ends of its window and tallies the events its query returns
\* for that window.
C7_FourWeeksOldestFirst ==
    MonthlyAnswered =>
        /\ Len(resp.body.weeks) = 4
        /\ \A k \in 1..Len(resp.body.weeks) :
              LET w == resp.body.weeks[k]
                  lo == clock - (5 - k) * 7 * TicksPerDay
                  hi == clock - (4 - k) * 7 * TicksPerDay
                  found == Returned(resp.uid, lo, hi)
              IN /\ w.week = k
                 /\ w.start_date = <<lo \div TicksPerDay>>
                 /\ w.end_date = <<hi \div TicksPerDay>>
                 /\ w.cigarettes = CountType(found, "cigarette")
                 /\ w.urges = CountType(found, "urge")
                 /\ w.resisted = CountType(found, "resisted")

\* Weekly buckets with a cigarette in Week 1 and an urge in Week 4
C7_Witness ==
    /\ MonthlyAnswered
    /\ resp.body.weeks[1].week = 1
    /\ resp.body.weeks[1].cigarettes = 1
    /\ resp.body.weeks[2].cigarettes = 0
    /\ resp.body.weeks[4].urges = 1
    /\ resp.body.weeks[3].urges = 0

\* C8: events are immutable and never destroyed.  Every step of the API
\* keeps every event already in the log at its place with all its fields
\* unchanged; the log changes only by one event appended at its end, and
\* only in a step that returns from create_event.
C8_EventsImmutableAppendOnly ==
    [][/\ Len(events') >= Len(events)
       /\ SubSeq(events', 1, Len(events)) = events
       /\ events' # events =>
             /\ Len(events') = Len(events) + 1
             /\ resp'.op = "create_event"
             /\ resp'.body = events'[Len(events')]]_vars

\* Two events are in the log and a checkout, its status check and a
\* profile update have run after them
C8_Witness ==
    /\ Len(events) = MaxEvents
    /\ payment_transactions # << >>
    /\ \E i \in 1..Len(users) : users[i].cigarettes_per_pack = 0
    /\ resp.op = "get_checkout_status"

\* C9: insertion order and created_at order never disagree.  Whatever the
\* interleaving of create_event requests, an event inserted before another
\* has a created_at that is not later.
C9_CreatedAtFollowsInsertion ==
    \A i, j \in 1..Len(events) :
        i < j => fromisoformat(events[i].created_at) <= fromisoformat(events[j].created_at)

\* C10: the aggregations have no side effects and do not disturb each
\* other.  A step of get_progress_summary, get_weekly_progress,
\* get_monthly_progress or get_trigger_patterns leaves users, events,
\* triggers and payment_transactions unchanged, and a request that returns
\* while others are in flight returns what the handler computes alone on
\* the store and the clock it read.
AloneResult(r) ==
    CASE r.op = "get_weekly_progress" ->
            WeeklyProgress(CurrentUser(r.user.id), events, r.now)
      [] r.op = "get_monthly_progress" ->
            MonthlyProgress(CurrentUser(r.user.id), events, r.now)
      [] r.op = "get_progress_summary" ->
            ProgressSummaryAt(CurrentUser(r.user.id), events, r.now, clock)
      [] OTHER -> TriggerPatterns(CurrentUser(r.user.id), triggers)

C10_AggregationsHaveNoSideEffects ==
    [][/\ (reading' # reading \/ (resp' # NoResp /\ resp'.op \in ReadOps))
             => UNCHANGED store
       /\ \A i \in 1..Len(reading) :
             (reading' = RemoveAt(reading, i)) => resp' = AloneResult(reading[i])]_vars

\* A weekly progress returns, over a log that holds an event, while another
\* aggregation is in flight with some of its queries answered
C10_Witness ==
    /\ events # << >>
    /\ resp.op = "get_weekly_progress"
    /\ resp.status = 200
    /\ \E i \in 1..Len(reading) :
          /\ reading[i].acc # << >>
          /\ reading[i].op = "get_monthly_progress"

-----------------------------------------------------------------------------
(* The summary: malformed and missing data *)

Malformed(quit_date) ==
    quit_date # << >> /\ fromisoformat(ReplaceZ(quit_date)) = ValueError

\* C11: a summary request of a user whose quit_date does not parse as a date
\* or datetime ends in a client-facing error response (4xx), never in an
\* unhandled exception.
C11_MalformedQuitDateIsClientError ==
    (/\ resp.op = "get_progress_summary"
     /\ Malformed(CurrentUser(resp.uid).quit_date))
    => resp.status \in 400..499

\* C13: for a user with no quit_date and no events the summary request is
\* answered, with days_smoke_free, current_streak, cigarettes_avoided and
\* money_saved all 0.
C13_NothingRecordedAllZero ==
    (/\ resp.op = "get_progress_summary"
     /\ CurrentUser(resp.uid).quit_date = << >>
     /\ \A i \in 1..Len(events) : events[i].user_id # resp.uid)
    => /\ resp.status = 200
       /\ resp.body.days_smoke_free = 0
       /\ resp.body.current_streak = 0
       /\ resp.body.cigarettes_avoided = 0
       /\ resp.body.money_saved = 0

\* C15: days_smoke_free is the number of whole days from quit_date (a date is
\* its midnight UTC) until now, and 0 without a quit_date; it is 0 when
\* quit_date is now or today's date.
C15_DaysSmokeFreeWholeDays ==
    SummaryAnswered =>
        LET quit_date == CurrentUser(resp.uid).quit_date
            quit == InstantOf(quit_date)
        IN /\ quit_date = << >> => resp.body.days_smoke_free = 0
           /\ (quit_date # << >> /\ quit <= clock)
                 => resp.body.days_smoke_free = WholeDaysSince(quit)
           /\ (quit_date = <<Today>> \/ quit_date = isoformat(clock))
                 => resp.body.days_smoke_free = 0

\* A summary late on the day of registration, the quit_date being the date
\* register defaulted it to
C15_Witness ==
    /\ SummaryAnswered
    /\ CurrentUser(resp.uid).quit_date = <<Today>>
    /\ CurrentUser(resp.uid).quit_date = DatePrefix(CurrentUser(resp.uid).created_at)
    /\ clock = (Today + 1) * TicksPerDay - 1
    /\ resp.body.days_smoke_free = 0

\* C17: with a cigarette event of the user in the log, current_streak is the
\* whole days since the one with the greatest created_at, whatever the
\* quit_date and the urge and resisted events; with none, current_streak is
\* days_smoke_free.
C17_StreakFromLatestCigarette ==
    SummaryAnswered =>
        LET cigs == EventsOf(resp.uid, "cigarette")
        IN /\ \A e \in cigs :
                 (\A f \in cigs : InstantOf(f.created_at) <= InstantOf(e.created_at))
                 => resp.body.current_streak =
                       Max(0, WholeDaysSince(InstantOf(e.created_at)))
           /\ cigs = {} => resp.body.current_streak = resp.body.days_smoke_free

\* A summary whose streak counts from a cigarette that predates quit_date,
\* an urge having been logged after it
C17_Witness ==
    /\ SummaryAnswered
    /\ resp.body.current_streak = 1
    /\ resp.body.days_smoke_free = 0
    /\ \E e \in EventsOf(resp.uid, "cigarette"), u \in EventsOf(resp.uid, "urge") :
          /\ InstantOf(e.created_at) < InstantOf(CurrentUser(resp.uid).quit_date)
          /\ InstantOf(u.created_at) > InstantOf(e.created_at)
          /\ WholeDaysSince(InstantOf(u.created_at)) = 0

-----------------------------------------------------------------------------
(* Trigger patterns *)

PatternsAnswered == resp.op = "get_trigger_patterns" /\ resp.status = 200

\* The number of the user's trigger records of one type
Occurrences(uid, ty) ==
    Cardinality({i \in TriggersOf(uid) : triggers[i].trigger_type = ty})

TypesOf(uid) == {triggers[i].trigger_type : i \in TriggersOf(uid)}

\* top_triggers: at most 5 pairs of distinct types, in non-increasing order of
\* count, no type left out having a greater count than one listed; and
\* most_common is the first type listed
TopTriggersRanked ==
    LET top == resp.body.top_triggers
        by_type == resp.body.by_type
        listed == {top[i][1] : i \in 1..Len(top)}
    IN /\ Len(top) <= 5
       /\ Len(top) = IF Len(by_type) <= 5 THEN Len(by_type) ELSE 5
       /\ \A i \in 1..Len(top) : \E j \in 1..Len(by_type) : by_type[j] = top[i]
       /\ \A i, j \in 1..Len(top) : i < j => top[i][1] # top[j][1] /\ top[i][2] >= top[j][2]
       /\ \A j \in 1..Len(by_type) :
             by_type[j][1] \notin listed
                => \A i \in 1..Len(top) : by_type[j][2] <= top[i][2]
       /\ resp.body.most_common =
             IF top = << >> THEN None ELSE Some(top[1][1])

\* by_type: each trigger_type of the user, once, with its number of
\* occurrences in the user's log
ByTypeCounts ==
    LET by_type == resp.body.by_type
    IN /\ {by_type[j][1] : j \in 1..Len(by_type)} = TypesOf(resp.uid)
       /\ \A i, j \in 1..Len(by_type) : i # j => by_type[i][1] # by_type[j][1]
       /\ \A j \in 1..Len(by_type) :
             by_type[j][2] = Occurrences(resp.uid, by_type[j][1])

\* The ranking, over the counts the answer reports
ReportedCountsRanked == PatternsAnswered => TopTriggersRanked

\* C12: top_triggers ranks the types by count, at most 5 of them, most_common
\* is the first, and by_type maps each trigger_type of the user to its
\* number of occurrences.
C12_TriggerTypesRankedByCount ==
    PatternsAnswered => TopTriggersRanked /\ ByTypeCounts

\* C14: for a user with no trigger record the patterns are total_triggers = 0,
\* most_common = none, top_triggers = [] and an empty by_type, with no error.
C14_NoTriggersEmptyPatterns ==
    (resp.op = "get_trigger_patterns" /\ TriggersOf(resp.uid) = {})
    => /\ resp.status = 200
       /\ resp.body.total_triggers = 0
       /\ resp.body.most_common = None
       /\ resp.body.top_triggers = << >>
       /\ resp.body.by_type = << >>

\* The patterns of a user with no trigger record, another user having one
C14_Witness ==
    /\ resp.op = "get_trigger_patterns"
    /\ TriggersOf(resp.uid) = {}
    /\ triggers # << >>
    /\ resp.body.total_triggers = 0

-----------------------------------------------------------------------------
(* Weekly buckets as a partition *)

\* C18: the 4 weekly buckets partition the trailing 28 days.  For each event
\* type the counts of the 4 buckets add up to the number of the user's
\* events of that type created in [now - 28d, now], an event created exactly
\* at now - 7d, now - 14d or now - 21d included; stated for a log small
\* enough that no query is capped.
C18_WeeksPartitionWindow ==
    (MonthlyAnswered /\ Len(events) <= ToListLimit) =>
        \A ty \in {"cigarette", "urge"} :
            LET key == IF ty = "cigarette" THEN "cigarettes" ELSE "urges"
            IN SumOver(resp.body.weeks, key) =
                  Cardinality(EventsBetween(resp.uid, ty,
                                            clock - WeeksInMonth * TicksPerWeek,
                                            clock))

-----------------------------------------------------------------------------
(* Authentication *)

\* The tokens register has returned so far
IssuedByRegister ==
    {[sub |-> users[i].id,
      exp |-> fromisoformat(users[i].created_at) + ExpirationTicks,
      signed |-> TRUE] : i \in 1..Len(users)}

\* The tokens register or login can have returned so far
Issued ==
    UNION {{[sub |-> users[i].id, exp |-> t + ExpirationTicks, signed |-> TRUE] :
               t \in fromisoformat(users[i].created_at)..clock} :
           i \in 1..Len(users)}

\* The header carries no token, a token that does not decode, or a token
\* naming no user of the collection
Unacceptable(a) ==
    \/ a.scheme # "Bearer"
    \/ ~a.token.signed
    \/ FindUser(a.token.sub) = 0

\* GET auth/me answers with the record of the token's user
AnswersAs(a) ==
    /\ resp'.status = 200
    /\ resp'.body = user_to_response(CurrentUser(a.token.sub))
    /\ resp'.body.id = a.token.sub

\* A request is rejected with 401 and nothing of the store changes
Rejected ==
    /\ resp'.status = 401
    /\ UNCHANGED store

\* The step is a request to a protected route with header a
ProtectedRequest(a) ==
    \/ get_me(a)
    \/ \E op \in ProtectedOps : resp'.op = op /\ unauthenticated(op, a)

\* C16 as stated: a token register returned authenticates as its user on
\* every later request, and a request with a missing or malformed token or
\* one naming an unknown user id is rejected with 401, the store unchanged.
C16_AsStated ==
    [][\A a \in AuthHeaders :
          /\ (a.scheme = "Bearer" /\ a.token \in IssuedByRegister /\ get_me(a))
                => AnswersAs(a)
          /\ (Unacceptable(a) /\ ProtectedRequest(a)) => Rejected]_vars

\* C16 amended: a token register or login returned authenticates as its user
\* on later requests until it expires; after that, and for a missing or
\* malformed token or one naming an unknown user id, the request is
\* rejected with 401, the store unchanged.
C16_TokenAuthenticatesUntilExpiry ==
    [][\A a \in AuthHeaders :
          /\ (a.scheme = "Bearer" /\ a.token \in Issued /\ clock < a.token.exp
                 /\ get_me(a))
                => AnswersAs(a)
          /\ ((Unacceptable(a) \/ clock >= a.token.exp) /\ ProtectedRequest(a))
                => Rejected]_vars

\* GET auth/me answered, some ticks after the user registered and after the
\* user changed name, an event being in the log
C16_Witness ==
    /\ resp.op = "get_me"
    /\ resp.status = 200
    /\ resp.body.name = "m"
    /\ clock >= InstantOf(resp.body.created_at) + 2
    /\ Len(users) = 2
    /\ events # << >>

-----------------------------------------------------------------------------
(* Registration *)

\* C20: the users collection never holds two records with the same email,
\* whatever the interleaving of register requests, and a register request
\* for an email already registered is answered 400 and inserts nothing.
C20_EmailsUnique ==
    /\ \A i, j \in 1..Len(users) : i # j => users[i].email # users[j].email
    /\ (resp.op = "register" /\ resp.status # 200)
          => resp = HTTPException("register", 0, 400, "Email already registered")

-----------------------------------------------------------------------------
(* Per-user isolation *)

\* The documents of a collection that belong to the user
OwnOf(coll, uid) == SelectSeq(coll, LAMBDA d : d.user_id = uid)

\* What the aggregate answers when the collections hold the user's own
\* documents and no one else's
OnOwnData(op, uid) ==
    LET user == CurrentUser(uid)
        evs == OwnOf(events, uid)
        trigs == OwnOf(triggers, uid)
    IN CASE op = "get_progress_summary" -> ProgressSummary(user, evs, clock)
         [] op = "get_weekly_progress" -> WeeklyProgress(user, evs, clock)
         [] op = "get_monthly_progress" -> MonthlyProgress(user, evs, clock)
         [] op = "get_trigger_patterns" -> TriggerPatterns(user, trigs)
         [] op = "get_today_stats" -> TodayStats(user, evs, clock)
         [] OTHER -> ProfileStats(user, evs, trigs)

IsolatedOps ==
    {"get_progress_summary", "get_weekly_progress", "get_monthly_progress",
     "get_trigger_patterns", "get_today_stats", "get_profile_stats"}

\* C19: what the six aggregates return to a user is determined by the
\* user's own record, events and triggers and the clock: the answer is the
\* one given with every other user's events and triggers removed, so two
\* runs that differ only in what another user logged return the same.
C19_AggregatesIsolatedPerUser ==
    resp.op \in IsolatedOps => resp = OnOwnData(resp.op, resp.uid)

\* Today's statistics of user 1, who smoked today, while user 2 has logged a
\* cigarette and a trigger
C19_Witness ==
    /\ resp.op = "get_today_stats"
    /\ resp.uid = 1
    /\ resp.body.cigarettes_today = 1
    /\ \E i \in 1..Len(events) :
          events[i].user_id = 2 /\ events[i].event_type = "cigarette"
    /\ \E i \in 1..Len(triggers) : triggers[i].user_id = 2

-----------------------------------------------------------------------------
(* The subscription paywall: accounts of both kinds, profile updates with  *)
(* bodies that name subscription fields, checkouts and their status checks *)

MaxClockPremium == 1

MaxUsersPremium == 2

MaxTransactionsPremium == 1

TelegramAuths ==
    {[init_data |-> "", telegram_id |-> 7, first_name |-> "t",
      last_name |-> "", username |-> ""]}

\* Request bodies of PUT /profile, with and without keys that ProfileUpdate
\* does not declare
ProfileBodies ==
    {[subscription_status |-> "premium", subscription_end |-> <<9>>],
     [name |-> "m", subscription_status |-> "premium"]}

NextPremium ==
    \/ clock < MaxClockPremium /\ Tick(1)
    \/ \E e \in Emails :
          /\ Len(users) < MaxUsersPremium
          /\ clock = 0
          /\ register(UserCreateOf(e, DefaultCigarettesPerPack))
    \/ \E a \in TelegramAuths :
          /\ FindTelegram(a.telegram_id) = 0 => Len(users) < MaxUsersPremium
          /\ telegram_auth(a)
    \/ \E uid \in Authenticated, body \in ProfileBodies :
          update_profile(uid, ProfileUpdate(body))
    \/ \E uid \in Authenticated, plan \in SUBSCRIPTION_PLANS \cup {"premium_weekly"} :
          /\ Len(payment_transactions) < MaxTransactionsPremium
          /\ create_checkout(uid, plan)
    \/ \E uid \in Authenticated, sid \in 1..(MaxTransactionsPremium + 1),
          st \in {"paid", "unpaid", "error"} :
          get_checkout_status(uid, sid, st)
    \/ stripe_webhook
    \/ \E uid \in Authenticated : get_insights(uid)

SpecPremium == Init /\ [][NextPremium]_vars

\* The transactions whose payment_status a step moves to paid
PaidByStep ==
    {k \in 1..Len(payment_transactions) :
        /\ payment_transactions[k].payment_status # "paid"
        /\ payment_transactions'[k].payment_status = "paid"}

\* The users whose subscription_status or subscription_end a step writes
UpgradedByStep ==
    {i \in 1..Len(users) :
        \/ users'[i].subscription_status # users[i].subscription_status
        \/ users'[i].subscription_end # users[i].subscription_end}

\* C21: get_checkout_status grants premium only to the owner of the payment:
\* every step that sets subscription_status = "premium" on a user marks paid
\* a transaction whose user_id is that user's id, so a user who queries
\* another user's paid session is not upgraded.
C21_PremiumOnlyToPaymentOwner ==
    [][\A i \in UpgradedByStep :
          users'[i].subscription_status = "premium"
          => \E k \in PaidByStep :
                payment_transactions[k].user_id = users[i].id]_vars

-----------------------------------------------------------------------------
(* Status checks of a checkout session running concurrently *)

MaxClockCheckout == 1

MaxUsersCheckout == 2

MaxTransactionsCheckout == 1

MaxChecks == 2

NextCheckout ==
    \/ clock < MaxClockCheckout /\ Tick(1)
    \/ \E e \in Emails :
          /\ Len(users) < MaxUsersCheckout
          /\ clock = 0
          /\ register(UserCreateOf(e, DefaultCigarettesPerPack))
    \/ \E uid \in Authenticated, plan \in SUBSCRIPTION_PLANS \cup {"premium_weekly"} :
          /\ Len(payment_transactions) < MaxTransactionsCheckout
          /\ create_checkout(uid, plan)
    \/ \E uid \in Authenticated, sid \in 1..(MaxTransactionsCheckout + 1),
          st \in {"paid", "unpaid", "error"} :
          /\ Len(checking) < MaxChecks
          /\ get_checkout_status_begin(uid, sid, st)
    \/ \E i \in 1..Len(checking) : get_checkout_status_find(i)
    \/ \E i \in 1..Len(checking) : get_checkout_status_update_transaction(i)
    \/ \E i \in 1..Len(checking) : get_checkout_status_update_user(i)

SpecCheckout == Init /\ [][NextCheckout]_vars

\* The status checks in flight for session s that are past the guard: each
\* goes on to write payment_status and subscription_end
Committed(s) ==
    {i \in 1..Len(checking) :
        checking[i].session_id = s /\ checking[i].pc # "find_one"}

\* No status check in flight is between its find_one and its last update
NoneCommitted == \A i \in 1..Len(checking) : checking[i].pc = "find_one"

\* payment_status only moves from pending to paid
PaymentStatusMonotone ==
    [][\A k \in 1..Len(payment_transactions) :
          payment_transactions'[k].payment_status
              # payment_transactions[k].payment_status
          => /\ payment_transactions[k].payment_status = "pending"
             /\ payment_transactions'[k].payment_status = "paid"]_vars

\* A status check that begins once the transaction is paid changes neither
\* users nor payment_transactions
PaidSessionIsSettled ==
    [][\A i \in 1..Len(checking) :
          /\ checking[i].pc = "find_one"
          /\ FindTransaction(checking[i].session_id) # 0
          /\ payment_transactions[FindTransaction(checking[i].session_id)]
                .payment_status = "paid"
          /\ NoneCommitted
          /\ checking' = RemoveAt(checking, i)
          => UNCHANGED <<users, payment_transactions>>]_vars

\* C22: each checkout session upgrades a subscription at most once:
\* payment_status only moves from pending to paid; under any interleaving of
\* get_checkout_status calls for one session_id subscription_end is written
\* once, that is, at most one of the calls gets past the guard to the two
\* updates; and once the transaction is paid, further status checks leave
\* users and payment_transactions unchanged.
C22_SessionUpgradesAtMostOnce ==
    /\ PaymentStatusMonotone
    /\ [](\A k \in 1..Len(payment_transactions) :
            Cardinality(Committed(payment_transactions[k].session_id)) <= 1)
    /\ PaidSessionIsSettled

\* C23: premium status is reachable only through a paid checkout: a new
\* account starts free with no subscription_end, and every step that changes
\* a user's subscription_status or subscription_end is a get_checkout_status
\* call by that user which found a recorded transaction, got payment_status
\* paid from the provider and set the status to premium; register,
\* telegram_auth, update_profile with any body, create_checkout and
\* stripe_webhook change neither field; and get_insights returns
\* premium-flagged insights only to a user whose subscription_status is
\* premium.
C23_PremiumOnlyThroughPaidCheckout ==
    [][/\ \A i \in UpgradedByStep :
             /\ resp'.op = "get_checkout_status"
             /\ resp'.uid = users[i].id
             /\ resp'.body.payment_status = "paid"
             /\ PaidByStep # {}
             /\ users'[i].subscription_status = "premium"
       /\ \A i \in (Len(users) + 1)..Len(users') :
             /\ users'[i].subscription_status = "free"
             /\ users'[i].subscription_end = None
       /\ resp'.op \in {"register", "telegram_auth", "update_profile",
                        "create_checkout", "stripe_webhook"}
             => UpgradedByStep = {}
       /\ resp'.op = "get_insights"
             => \A j \in 1..Len(resp'.body.insights) :
                   resp'.body.insights[j].premium
                   => CurrentUser(resp'.uid).subscription_status = "premium"]_vars

\* A premium user is shown the premium insights, while another user, who
\* sent a profile body naming subscription_status, is still free
C23_Witness ==
    /\ resp.op = "get_insights"
    /\ resp.body.is_premium
    /\ Len(resp.body.insights) = Len(MOCKED_INSIGHTS)
    /\ CurrentUser(resp.uid).subscription_status = "premium"
    /\ \E i \in 1..Len(users) :
          /\ users[i].name = "m"
          /\ users[i].subscription_status = "free"
          /\ users[i].subscription_end = None

=============================================================================
